---- MODULE Spec2Model ----
(***************************************************************************)
(* rocket-request_id: a process-wide map REQUEST_IDS, guarded by one       *)
(* Mutex, from the memory address of a live rocket Request to a random     *)
(* u64.  RequestIDFairing::on_request inserts, on_response removes, and    *)
(* RequestID::from_request looks the address up.                           *)
(*                                                                         *)
(* Every request is handled by one thread.  Inside a hook or inside        *)
(* from_request pc[r] is the thread's position; between calls pc[r] is the *)
(* phase of the request:                                                   *)
(*   "idle"     not dispatched yet                                         *)
(*   "pre"      the Request exists, the request fairings have not run      *)
(*   "handler"  the route's guards and handler run                         *)
(*   "guard"    inside a guard that nests a RequestID resolution           *)
(*   "failed"   a guard returned Failure, the request fails with its status*)
(*   "post"     the response fairings have run, the Request is still alive *)
(*   "panicked" the thread unwinds (TestGuard's unwrap on a Failure)       *)
(*   "done"     the Request is dropped                                     *)
(*   "aborted"  the Request is dropped, its response fairings never ran    *)
(***************************************************************************)
EXTENDS Integers, Sequences, FiniteSets, TLC

\* ---- bounds of the model -------------------------------------------------
NumReqs == 2
NumIds == 2

\* ---- program constants ---------------------------------------------------
InternalServerError == 500

Reqs == 1..NumReqs
Handles == 1..NumReqs
Ids == 0..(NumIds - 1)
NoHolder == 0
Poisoned == -1
NoHandle == 0
NoId == -1

VARIABLES
    REQUEST_IDS,  \* the HashMap<usize, u64> inside the Mutex
    lock,         \* the request whose thread holds the MutexGuard, NoHolder, or Poisoned
    pc,           \* per request: phase, or position inside a hook / from_request
    handle,       \* per request: request as *const Request as usize
    attached,     \* per request: its rocket instance has RequestIDFairing attached
    via,          \* per request: the phase the running call was made from
    fresh,        \* per request: the value thread_rng().gen() returned in on_request
    found,        \* per request: the Option the map's get returned in from_request
    last          \* per request: the outcome from_request returned last

vars == <<REQUEST_IDS, lock, pc, handle, attached, via, fresh, found, last>>

\* ---- HashMap operations --------------------------------------------------
EmptyMap == [k \in {} |-> NoId]

\* a map whose insert writes the value into every entry
InsertShared(m, k, v) == [x \in (DOMAIN m) \cup {k} |-> v]

\* a map whose insert stores a fixed value
InsertFixed(m, k, v) == [x \in (DOMAIN m) \cup {k} |-> IF x = k THEN 0 ELSE m[x]]

\* a map whose insert keeps the entry the key has already
InsertKeep(m, k, v) == [x \in (DOMAIN m) \cup {k} |-> IF x \in DOMAIN m THEN m[x] ELSE v]

Insert(m, k, v) == [x \in (DOMAIN m) \cup {k} |-> IF x = k THEN v ELSE m[x]]

\* a map whose remove clears it
RemoveAll(m, k) == [x \in {} |-> NoId]

\* a map whose remove removes nothing
RemoveNothing(m, k) == m

Remove(m, k) == [x \in (DOMAIN m) \ {k} |-> m[x]]

None == <<"None">>
Some(v) == <<"Some", v>>

\* a lookup that falls back to some entry when the key is missing
GetAny(m, k) ==
    IF k \in DOMAIN m THEN Some(m[k])
    ELSE IF DOMAIN m # {} THEN Some(m[CHOOSE x \in DOMAIN m : TRUE])
    ELSE None

Get(m, k) == IF k \in DOMAIN m THEN Some(m[k]) ELSE None

\* ---- outcomes of from_request --------------------------------------------
Success(id) == <<"Success", id>>
Failure(status) == <<"Failure", status>>
NoOutcome == <<"NoOutcome">>

\* ---- the allocator: live Request objects have distinct addresses ---------
Live(r) == pc[r] \notin {"idle", "done", "aborted"}
LiveHandles == {handle[r] : r \in {q \in Reqs : Live(q)}}
FreeHandles == Handles \ LiveHandles

Init ==
    /\ REQUEST_IDS = EmptyMap
    /\ lock = NoHolder
    /\ pc = [r \in Reqs |-> "idle"]
    /\ handle = [r \in Reqs |-> NoHandle]
    /\ attached = [r \in Reqs |-> FALSE]
    /\ via = [r \in Reqs |-> "none"]
    /\ fresh = [r \in Reqs |-> NoId]
    /\ found = [r \in Reqs |-> None]
    /\ last = [r \in Reqs |-> NoOutcome]

\* The code sees an address only as a HashMap key, so addresses matter up to
\* equality: the allocator hands out the lowest free one.
Alloc == {h \in FreeHandles : \A g \in FreeHandles : h <= g}

\* A request arrives at a rocket instance (with or without the fairing) and
\* its Request object is allocated at an address no live Request occupies.
\* Requests are numbered in the order they arrive.
Dispatch(r) ==
    /\ pc[r] = "idle"
    /\ \A q \in Reqs : q < r => pc[q] # "idle"
    /\ \E h \in Alloc, a \in BOOLEAN :
          /\ handle' = [handle EXCEPT ![r] = h]
          /\ attached' = [attached EXCEPT ![r] = a]
    /\ pc' = [pc EXCEPT ![r] = "pre"]
    /\ UNCHANGED <<REQUEST_IDS, lock, via, fresh, found, last>>

\* ---- RequestIDFairing::on_request ----------------------------------------
\* rocket runs the request fairings of the instance, then routes
CallOnRequest(r) ==
    /\ pc[r] = "pre"
    /\ attached[r]
    /\ pc' = [pc EXCEPT ![r] = "req_lock"]
    /\ via' = [via EXCEPT ![r] = "pre"]
    /\ UNCHANGED <<REQUEST_IDS, lock, handle, attached, fresh, found, last>>

Route(r) ==
    /\ pc[r] = "pre"
    /\ ~attached[r]
    /\ pc' = [pc EXCEPT ![r] = "handler"]
    /\ UNCHANGED <<REQUEST_IDS, lock, handle, attached, via, fresh, found, last>>

\* REQUEST_IDS.lock().unwrap(): the receiver of insert is evaluated first
ReqLock(r) ==
    /\ pc[r] = "req_lock"
    /\ lock = NoHolder
    /\ lock' = r
    /\ pc' = [pc EXCEPT ![r] = "req_gen"]
    /\ UNCHANGED <<REQUEST_IDS, handle, attached, via, fresh, found, last>>

\* thread_rng().gen(): the argument of insert, evaluated after the receiver
ReqGen(r) ==
    /\ pc[r] = "req_gen"
    /\ \E v \in Ids : fresh' = [fresh EXCEPT ![r] = v]
    /\ pc' = [pc EXCEPT ![r] = "req_insert"]
    /\ UNCHANGED <<REQUEST_IDS, lock, handle, attached, via, found, last>>

\* .insert(addr, id); the guard is a temporary dropped at the end of the statement
ReqInsert(r) ==
    /\ pc[r] = "req_insert"
    /\ REQUEST_IDS' = Insert(REQUEST_IDS, handle[r], fresh[r])
    /\ lock' = NoHolder
    /\ pc' = [pc EXCEPT ![r] = "handler"]
    /\ via' = [via EXCEPT ![r] = "none"]
    /\ UNCHANGED <<handle, attached, fresh, found, last>>

\* ---- RequestID::from_request ---------------------------------------------
\* a guard of the route: the handler's RequestID argument, or the
\* request.guard() nested in TestGuard
CallFromRequest(r) ==
    /\ pc[r] \in {"handler", "guard"}
    /\ via' = [via EXCEPT ![r] = pc[r]]
    /\ pc' = [pc EXCEPT ![r] = "fr_lock"]
    /\ UNCHANGED <<REQUEST_IDS, lock, handle, attached, fresh, found, last>>

\* TestGuard::from_request: a guard whose body is request.guard().unwrap()
GuardEnter(r) ==
    /\ pc[r] = "handler"
    /\ pc' = [pc EXCEPT ![r] = "guard"]
    /\ UNCHANGED <<REQUEST_IDS, lock, handle, attached, via, fresh, found, last>>

\* a lock() that does not wait for the holder
FrLockNoWait(r) ==
    /\ pc[r] = "fr_lock"
    /\ lock' = r
    /\ pc' = [pc EXCEPT ![r] = "fr_get"]
    /\ UNCHANGED <<REQUEST_IDS, handle, attached, via, fresh, found, last>>

\* REQUEST_IDS.lock().unwrap()
FrLock(r) ==
    /\ pc[r] = "fr_lock"
    /\ lock = NoHolder
    /\ lock' = r
    /\ pc' = [pc EXCEPT ![r] = "fr_get"]
    /\ UNCHANGED <<REQUEST_IDS, handle, attached, via, fresh, found, last>>

\* .get(&addr), the scrutinee of the match: its temporaries, the guard among
\* them, live to the end of the match
FrGet(r) ==
    /\ pc[r] = "fr_get"
    /\ found' = [found EXCEPT ![r] = Get(REQUEST_IDS, handle[r])]
    /\ pc' = [pc EXCEPT ![r] = IF found'[r] = None THEN "fr_log" ELSE "fr_some"]
    /\ UNCHANGED <<REQUEST_IDS, lock, handle, attached, via, fresh, last>>

\* where a call made in phase p goes on when from_request returns o: a guard
\* that fails fails the request, and TestGuard's unwrap panics on a Failure
Continue(p, o) ==
    IF o[1] = "Success" THEN (IF p = "guard" THEN "handler" ELSE p)
    ELSE IF p = "guard" THEN "panicked"
    ELSE IF p = "handler" THEN "failed"
    ELSE p

\* a from_request that leaks its guard: the lock stays held after the return
ReturnKeepLock(r, o) ==
    /\ last' = [last EXCEPT ![r] = o]
    /\ pc' = [pc EXCEPT ![r] = Continue(via[r], o)]
    /\ via' = [via EXCEPT ![r] = "none"]
    /\ found' = [found EXCEPT ![r] = None]
    /\ lock' = lock

\* the match ends: the outcome is returned and the guard dropped
Return(r, o) ==
    /\ last' = [last EXCEPT ![r] = o]
    /\ pc' = [pc EXCEPT ![r] = Continue(via[r], o)]
    /\ via' = [via EXCEPT ![r] = "none"]
    /\ found' = [found EXCEPT ![r] = None]
    /\ lock' = NoHolder

\* Some(id) => Outcome::Success(RequestID { id: id.clone() })
FrSome(r) ==
    /\ pc[r] = "fr_some"
    /\ Return(r, Success(found[r][2]))
    /\ UNCHANGED <<REQUEST_IDS, handle, attached, fresh>>

\* a from_request that fills the entry in when the lookup misses
FrLogInserting(r) ==
    /\ pc[r] = "fr_log"
    /\ pc' = [pc EXCEPT ![r] = "fr_none"]
    /\ REQUEST_IDS' = Insert(REQUEST_IDS, handle[r], 0)
    /\ UNCHANGED <<lock, handle, attached, via, fresh, found, last>>

\* None => error!("unable to get request id: ...")
FrLog(r) ==
    /\ pc[r] = "fr_log"
    /\ pc' = [pc EXCEPT ![r] = "fr_none"]
    /\ UNCHANGED <<REQUEST_IDS, lock, handle, attached, via, fresh, found, last>>

\* Outcome::Failure((Status::InternalServerError, ()))
FrNone(r) ==
    /\ pc[r] = "fr_none"
    /\ Return(r, Failure(InternalServerError))
    /\ UNCHANGED <<REQUEST_IDS, handle, attached, fresh>>

\* ---- RequestIDFairing::on_response ---------------------------------------
\* the handler returned, or a guard failed: rocket runs the response fairings
\* of the instance
Respond(r) ==
    /\ pc[r] \in {"handler", "failed"}
    /\ pc' = [pc EXCEPT ![r] = IF attached[r] THEN "resp_lock" ELSE "post"]
    /\ via' = [via EXCEPT ![r] = IF attached[r] THEN "handler" ELSE "none"]
    /\ UNCHANGED <<REQUEST_IDS, lock, handle, attached, fresh, found, last>>

\* REQUEST_IDS.lock().unwrap()
RespLock(r) ==
    /\ pc[r] = "resp_lock"
    /\ lock = NoHolder
    /\ lock' = r
    /\ pc' = [pc EXCEPT ![r] = "resp_remove"]
    /\ UNCHANGED <<REQUEST_IDS, handle, attached, via, fresh, found, last>>

\* .remove(&addr); the guard is dropped at the end of the statement
RespRemove(r) ==
    /\ pc[r] = "resp_remove"
    /\ REQUEST_IDS' = Remove(REQUEST_IDS, handle[r])
    /\ lock' = NoHolder
    /\ pc' = [pc EXCEPT ![r] = IF via[r] = "handler" THEN "post" ELSE via[r]]
    /\ via' = [via EXCEPT ![r] = "none"]
    /\ UNCHANGED <<handle, attached, fresh, found, last>>

\* the Request is dropped; its address may be handed out again
Free(r) ==
    /\ pc[r] \in {"post", "panicked"}
    /\ pc' = [pc EXCEPT ![r] = "done"]
    /\ handle' = [handle EXCEPT ![r] = NoHandle]
    /\ attached' = [attached EXCEPT ![r] = FALSE]
    /\ UNCHANGED <<REQUEST_IDS, lock, via, fresh, found, last>>

\* ---- calls outside the request's window ----------------------------------
\* from_request and the hooks are public: whoever holds the &Request (another
\* fairing, say) may call them before the request fairings or after the
\* response fairings of this crate have run.
CallOutside(r) ==
    /\ pc[r] \in {"pre", "post"}
    /\ via' = [via EXCEPT ![r] = pc[r]]
    /\ pc' = [pc EXCEPT ![r] = "fr_lock"]
    /\ UNCHANGED <<REQUEST_IDS, lock, handle, attached, fresh, found, last>>

ExtraOnResponse(r) ==
    /\ pc[r] \in {"pre", "post"}
    /\ via' = [via EXCEPT ![r] = pc[r]]
    /\ pc' = [pc EXCEPT ![r] = "resp_lock"]
    /\ UNCHANGED <<REQUEST_IDS, lock, handle, attached, fresh, found, last>>

\* ---- a request that is aborted ------------------------------------------
\* the handler panics (an assert_eq! of the test handlers, say): the thread
\* unwinds and drops the Request, and rocket never runs the response
\* fairings; handle[r] keeps the address the Request had
Abort(r) ==
    /\ pc[r] = "handler"
    /\ pc' = [pc EXCEPT ![r] = "aborted"]
    /\ attached' = [attached EXCEPT ![r] = FALSE]
    /\ UNCHANGED <<REQUEST_IDS, lock, handle, via, fresh, found, last>>

\* ---- two requests under one key -----------------------------------------
\* the hazard of keying the map by an address: a request of an instance with
\* the fairing whose handle is the lowest free address or the handle of a
\* request that is still live
DispatchAlias(r) ==
    /\ pc[r] = "idle"
    /\ \A q \in Reqs : q < r => pc[q] # "idle"
    /\ \E h \in LiveHandles \cup Alloc : handle' = [handle EXCEPT ![r] = h]
    /\ attached' = [attached EXCEPT ![r] = TRUE]
    /\ pc' = [pc EXCEPT ![r] = "pre"]
    /\ UNCHANGED <<REQUEST_IDS, lock, via, fresh, found, last>>

\* ---- a poisoned lock ---------------------------------------------------
\* the thread panics while it holds the guard: thread_rng() fails in
\* on_request, or the logger behind error! panics in from_request.  The
\* unwinding drops the guard, which marks the Mutex poisoned and unlocks it.
PanicHolding(r) ==
    /\ pc[r] \in {"req_gen", "fr_log"}
    /\ lock = r
    /\ lock' = Poisoned
    /\ pc' = [pc EXCEPT ![r] = "panicked"]
    /\ via' = [via EXCEPT ![r] = "none"]
    /\ found' = [found EXCEPT ![r] = None]
    /\ UNCHANGED <<REQUEST_IDS, handle, attached, fresh, last>>

\* a lock().unwrap() that takes the guard out of the PoisonError and goes on
LockRecovering(r) ==
    /\ pc[r] \in {"req_lock", "fr_lock", "resp_lock"}
    /\ lock = Poisoned
    /\ lock' = r
    /\ pc' = [pc EXCEPT ![r] = IF pc[r] = "req_lock" THEN "req_gen"
                               ELSE IF pc[r] = "fr_lock" THEN "fr_get"
                               ELSE "resp_remove"]
    /\ UNCHANGED <<REQUEST_IDS, handle, attached, via, fresh, found, last>>

\* REQUEST_IDS.lock().unwrap() on a poisoned Mutex: lock() returns Err, unwrap
\* panics, and the guard inside the PoisonError is dropped by the unwinding
LockPoisoned(r) ==
    /\ pc[r] \in {"req_lock", "fr_lock", "resp_lock"}
    /\ lock = Poisoned
    /\ pc' = [pc EXCEPT ![r] = "panicked"]
    /\ via' = [via EXCEPT ![r] = "none"]
    /\ UNCHANGED <<REQUEST_IDS, lock, handle, attached, fresh, found, last>>

\* ---- specifications ------------------------------------------------------
OnRequestStep(r) ==
    \/ CallOnRequest(r)
    \/ Route(r)
    \/ ReqLock(r)
    \/ ReqGen(r)
    \/ ReqInsert(r)

FromRequestStep(r) ==
    \/ CallFromRequest(r)
    \/ GuardEnter(r)
    \/ FrLock(r)
    \/ FrGet(r)
    \/ FrSome(r)
    \/ FrLog(r)
    \/ FrNone(r)

OnResponseStep(r) ==
    \/ Respond(r)
    \/ RespLock(r)
    \/ RespRemove(r)
    \/ Free(r)

\* requests of any number of clients, handled concurrently, each through the
\* lifecycle rocket drives: request fairings, guards and handler, response
\* fairings
Next ==
    \E r \in Reqs :
        \/ Dispatch(r)
        \/ OnRequestStep(r)
        \/ FromRequestStep(r)
        \/ OnResponseStep(r)

Spec == Init /\ [][Next]_vars

\* one client that dispatches its requests one after the other, as the tests
\* do: Client::dispatch returns when the response is there
DispatchSeq(r) ==
    /\ \A q \in Reqs : ~Live(q)
    /\ Dispatch(r)

NextSeq ==
    \E r \in Reqs :
        \/ DispatchSeq(r)
        \/ OnRequestStep(r)
        \/ FromRequestStep(r)
        \/ OnResponseStep(r)

SpecSeq == Init /\ [][NextSeq]_vars

\* concurrent requests whose hooks run as rocket drives them, with calls of
\* from_request and on_response outside the window between the two hooks
OutsideStep(r) ==
    \/ CallOutside(r)
    \/ ExtraOnResponse(r)
    \/ FrLock(r)
    \/ FrGet(r)
    \/ FrLog(r)
    \/ FrNone(r)

NextDirect ==
    \E r \in Reqs :
        \/ Dispatch(r)
        \/ OnRequestStep(r)
        \/ OnResponseStep(r)
        \/ OutsideStep(r)

SpecDirect == Init /\ [][NextDirect]_vars

\* concurrent requests, any of which may be aborted in its handler
NextAbort ==
    \E r \in Reqs :
        \/ Dispatch(r)
        \/ OnRequestStep(r)
        \/ FromRequestStep(r)
        \/ OnResponseStep(r)
        \/ Abort(r)

SpecAbort == Init /\ [][NextAbort]_vars

\* concurrent requests of an instance with the fairing, whose handles may
\* coincide, and whose handlers take RequestID arguments
NextAlias ==
    \E r \in Reqs :
        \/ DispatchAlias(r)
        \/ CallOnRequest(r)
        \/ ReqLock(r)
        \/ ReqGen(r)
        \/ ReqInsert(r)
        \/ CallFromRequest(r)
        \/ FrLock(r)
        \/ FrGet(r)
        \/ FrSome(r)
        \/ FrLog(r)
        \/ FrNone(r)
        \/ OnResponseStep(r)

SpecAlias == Init /\ [][NextAlias]_vars

\* concurrent requests whose threads may panic while they hold the lock
NextPoison ==
    \E r \in Reqs :
        \/ Dispatch(r)
        \/ OnRequestStep(r)
        \/ FromRequestStep(r)
        \/ OnResponseStep(r)
        \/ PanicHolding(r)
        \/ LockPoisoned(r)

SpecPoison == Init /\ [][NextPoison]_vars

\* concurrent requests under fair scheduling: the thread inside a locked
\* section (there is one at most) keeps running, and a thread blocked in
\* lock() gets the lock if the lock is free again and again.  The Requests
\* stay allocated after their response fairings have run.
InsideStep(r) ==
    \/ ReqGen(r)
    \/ ReqInsert(r)
    \/ FrGet(r)
    \/ FrSome(r)
    \/ FrLog(r)
    \/ FrNone(r)
    \/ RespRemove(r)

LockStep(r) ==
    \/ ReqLock(r)
    \/ FrLock(r)
    \/ RespLock(r)

NextLive ==
    \E r \in Reqs :
        \/ Dispatch(r)
        \/ CallOnRequest(r)
        \/ Route(r)
        \/ CallFromRequest(r)
        \/ Respond(r)
        \/ LockStep(r)
        \/ InsideStep(r)

SpecLive ==
    /\ Init
    /\ [][NextLive]_vars
    /\ WF_vars(\E r \in Reqs : InsideStep(r))
    /\ \A r \in Reqs : SF_vars(LockStep(r))

\* ---- properties ----------------------------------------------------------
FrPcs == {"fr_lock", "fr_get", "fr_some", "fr_log", "fr_none"}

\* on_request has inserted r's entry and on_response has not removed it yet
InWindow(r) ==
    /\ attached[r]
    /\ \/ pc[r] \in {"handler", "guard", "failed", "resp_lock", "resp_remove"}
       \/ pc[r] \in FrPcs /\ via[r] \in {"handler", "guard"}

\* C1: between its two hooks, every resolution of a request succeeds, and it
\* returns the identifier the request's earlier resolutions returned, whether
\* the call is the handler's own guard or one nested in another guard, and
\* whatever the other requests do meanwhile.
C1_SameIdWithinRequest ==
    \A r \in Reqs :
        InWindow(r) =>
            /\ pc[r] \notin {"fr_log", "fr_none"}
            /\ last[r] # NoOutcome => last[r][1] = "Success"
            /\ (pc[r] = "fr_some" /\ last[r] # NoOutcome) => Success(found[r][2]) = last[r]

\* a nested resolution is about to return what an earlier resolution of the
\* request returned, while another request holds a different identifier
C1_Witness ==
    \E r, q \in Reqs :
        /\ r # q
        /\ pc[r] = "fr_some" /\ via[r] = "guard"
        /\ last[r] = Success(found[r][2])
        /\ InWindow(q) /\ last[q][1] = "Success" /\ last[q] # last[r]

\* both hooks of r have run: the request completed
Completed(r) == fresh[r] # NoId /\ pc[r] \in {"post", "done"}

\* C2: once a request's on_request and then its on_response have run, the
\* registry holds no entry under the request's handle, and when every request
\* dispatched so far has completed the registry is empty.
C2_NoEntryAfterCompletion ==
    /\ \A r \in Reqs : (Completed(r) /\ pc[r] = "post") => handle[r] \notin DOMAIN REQUEST_IDS
    /\ (\A r \in Reqs : pc[r] = "idle" \/ Completed(r)) => REQUEST_IDS = EmptyMap

\* every request went through both hooks and is gone, and the map is empty
C2_Witness ==
    /\ \A r \in Reqs : Completed(r) /\ pc[r] = "done"
    /\ REQUEST_IDS = EmptyMap

\* the requests of one client: q was dispatched after r completed
Sequential(r, q) == r < q /\ last[r][1] = "Success" /\ last[q][1] = "Success"

C4_NotAttachedFails ==
    [][\A r \in Reqs :
          (Live(r) /\ ~attached[r] /\ pc[r] \in FrPcs /\ pc'[r] # pc[r]) =>
              /\ REQUEST_IDS' = REQUEST_IDS
              /\ pc[r] # "fr_some"
              /\ pc[r] = "fr_get" => pc'[r] = "fr_log"
              /\ pc[r] = "fr_none" =>
                    /\ last'[r] = Failure(InternalServerError)
                    /\ pc'[r] \in {"failed", "panicked"}]_vars

\* a request without the fairing was refused while the registry held the
\* entry of another request
C4_Witness ==
    \E r \in Reqs :
        /\ pc[r] = "failed" /\ ~attached[r]
        /\ last[r] = Failure(InternalServerError)
        /\ REQUEST_IDS # EmptyMap

\* C5: however the hooks and resolutions of concurrent requests interleave,
\* the entry of a request in its window holds the identifier its own
\* on_request generated, and every resolution of the request finds and
\* returns exactly that identifier.
C5_OwnIdentifier ==
    \A r \in Reqs :
        /\ InWindow(r) => Get(REQUEST_IDS, handle[r]) = Some(fresh[r])
        /\ pc[r] = "fr_some" => found[r] = Some(fresh[r])
        /\ last[r][1] = "Success" => last[r] = Success(fresh[r])

\* two requests in flight together were each returned their own identifier,
\* and the two identifiers differ
C5_Witness ==
    \E r, q \in Reqs :
        /\ InWindow(r) /\ InWindow(q)
        /\ fresh[r] # fresh[q]
        /\ last[r] = Success(fresh[r]) /\ last[q] = Success(fresh[q])

\* the requests whose on_request has run and whose on_response has not
Registered == {r \in Reqs : InWindow(r)}

\* C6: the keys of the registry are the handles of the requests whose
\* on_request has run and whose on_response has not: one entry for each of
\* them, which disappears with the request's own on_response.
C6_KeysAreRequestsInWindow ==
    /\ DOMAIN REQUEST_IDS = {handle[r] : r \in Registered}
    /\ Cardinality(DOMAIN REQUEST_IDS) = Cardinality(Registered)

\* one request's on_response is about to remove its entry while the entry of
\* another request in flight is there too
C6_Witness ==
    \E r, q \in Reqs :
        /\ r # q
        /\ pc[r] = "resp_remove" /\ InWindow(q)
        /\ DOMAIN REQUEST_IDS = {handle[r], handle[q]}

\* C7: a resolution made before the request's on_request has run or after
\* its on_response has run, no other request using the handle, misses the
\* lookup and returns Failure(InternalServerError), not the identifier the
\* request had in between.
C7_OutsideWindowFails ==
    \A r \in Reqs :
        /\ (pc[r] \in FrPcs /\ via[r] \in {"pre", "post"}) => pc[r] # "fr_some"
        /\ last[r] \in {NoOutcome, Failure(InternalServerError)}
        /\ last[r] # Success(fresh[r])

\* a request that went through both hooks is refused afterwards
C7_Witness ==
    \E r \in Reqs :
        /\ pc[r] = "post" /\ Completed(r)
        /\ last[r] = Failure(InternalServerError)
        /\ REQUEST_IDS # EmptyMap

\* C8: on_response always completes: called for a handle without an entry
\* (never inserted, or removed already) it leaves the registry as it was,
\* and a second on_response for the same handle would change nothing.
C8_RemoveIdempotent ==
    [][\A r \in Reqs :
          (pc[r] = "resp_remove" /\ pc'[r] # pc[r]) =>
              /\ pc'[r] \in {"pre", "post"}
              /\ lock' = NoHolder
              /\ handle[r] \notin DOMAIN REQUEST_IDS => REQUEST_IDS' = REQUEST_IDS
              /\ Remove(REQUEST_IDS', handle[r]) = REQUEST_IDS']_vars

\* a second on_response for a request is at its remove, the entry being gone
\* already and the entry of another request being there
C8_Witness ==
    \E r \in Reqs :
        /\ pc[r] = "resp_remove" /\ via[r] = "post"
        /\ fresh[r] # NoId
        /\ handle[r] \notin DOMAIN REQUEST_IDS
        /\ REQUEST_IDS # EmptyMap

\* C9 as claimed: the lock is held for the map operation only: not while
\* on_request draws the identifier, not while from_request logs the missing
\* entry, not while it builds its outcome.
C9_LockOnlyForMapOperation ==
    \A r \in Reqs :
        pc[r] \in {"req_gen", "fr_log", "fr_none", "fr_some"} => lock # r

\* C10: while the handler of a request or a guard that nests a resolution
\* runs, the request's thread does not hold the lock, so a resolution the
\* guard starts never waits for a lock its own thread holds.
C10_NoLockInHandler ==
    \A r \in Reqs :
        pc[r] \in {"handler", "guard", "failed", "fr_lock"} => lock # r

\* a guard runs after a resolution of its request returned, and its nested
\* resolution has taken the lock
C10_Witness ==
    \E r \in Reqs :
        /\ pc[r] = "fr_get" /\ via[r] = "guard"
        /\ last[r][1] = "Success"
        /\ lock = r

\* C11: on_request for handle h leaves the registry mapping h to the
\* identifier it has just drawn, also when a stale entry was stored under h,
\* and leaves the entry of every other handle as it was; a resolution that
\* follows returns the fresh identifier.
C11_InsertOverwrites ==
    [][\A r \in Reqs :
          /\ (pc[r] = "req_insert" /\ pc'[r] # pc[r]) =>
                /\ Get(REQUEST_IDS', handle[r]) = Some(fresh[r])
                /\ DOMAIN REQUEST_IDS' = DOMAIN REQUEST_IDS \cup {handle[r]}
                /\ \A h \in DOMAIN REQUEST_IDS' \ {handle[r]} :
                      REQUEST_IDS'[h] = REQUEST_IDS[h]
          /\ (InWindow(r) /\ pc[r] = "fr_some" /\ pc'[r] # pc[r]) =>
                last'[r] = Success(fresh[r])]_vars

\* a request whose address an aborted request had, with another identifier
\* left under it, has been returned its own identifier
C11_Witness ==
    \E r, q \in Reqs :
        /\ pc[q] = "aborted" /\ handle[q] = handle[r]
        /\ fresh[q] # NoId /\ fresh[q] # fresh[r]
        /\ InWindow(r) /\ last[r] = Success(fresh[r])

\* C12: no step of from_request changes the registry or draws an identifier,
\* whether the lookup hits or misses; the identifier of a request is drawn
\* once, in its on_request, and the registry changes only in the insert of
\* an on_request and the remove of an on_response.
C12_ResolutionReadsOnly ==
    [][\A r \in Reqs :
          /\ (pc[r] \in FrPcs /\ pc'[r] # pc[r]) =>
                (REQUEST_IDS' = REQUEST_IDS /\ fresh' = fresh)
          /\ fresh'[r] # fresh[r] => (pc[r] = "req_gen" /\ fresh[r] = NoId)
          /\ (REQUEST_IDS' # REQUEST_IDS) =>
                \E q \in Reqs : pc[q] \in {"req_insert", "resp_remove"} /\ pc'[q] # pc[q]]_vars

\* one request was refused and another was returned its identifier, and the
\* registry holds only the entry of the second
C12_Witness ==
    \E r, q \in Reqs :
        /\ pc[r] = "failed" /\ last[r] = Failure(InternalServerError)
        /\ pc[q] = "handler" /\ last[q] = Success(fresh[q])
        /\ DOMAIN REQUEST_IDS = {handle[q]}

\* the entry an aborted request left behind
Leaked(q) == pc[q] = "aborted" /\ fresh[q] # NoId /\ handle[q] \in DOMAIN REQUEST_IDS

\* C13 as claimed: the entry of a request aborted after its on_request stays
\* in the registry in every later state, whatever other requests do.
C13_LeakedEntryStaysForever ==
    [][\A q \in Reqs : Leaked(q) => handle[q] \in DOMAIN REQUEST_IDS']_vars

\* C13: when a request is aborted after its on_request, its entry is in the
\* registry, and it stays there with its identifier in every step taken
\* while no live request has the same address: requests with other handles
\* that start, resolve and complete leave it alone.
C13_LeakedEntryStaysUntilReuse ==
    [][\A q \in Reqs :
          /\ (pc[q] = "handler" /\ attached[q] /\ pc'[q] = "aborted") =>
                Get(REQUEST_IDS', handle[q]) = Some(fresh[q])
          /\ (Leaked(q) /\ \A r \in Reqs : Live(r) => handle[r] # handle[q]) =>
                Get(REQUEST_IDS', handle[q]) = Get(REQUEST_IDS, handle[q])]_vars

\* the entry of an aborted request is still there, with its identifier, after
\* another request went through both hooks and was dropped
C13_Witness ==
    \E q, r \in Reqs :
        /\ Leaked(q) /\ Get(REQUEST_IDS, handle[q]) = Some(fresh[q])
        /\ pc[r] = "done" /\ Completed(r) /\ last[r] = Success(fresh[r])
        /\ q < r

\* r is a request in its window and q another live request that produces
\* the same handle
Aliased(r, q) == r # q /\ InWindow(r) /\ Live(q) /\ handle[r] = handle[q]

LockPcs == {"req_lock", "fr_lock", "resp_lock"}
HoldPcs == {"req_gen", "req_insert", "fr_get", "fr_some", "fr_log", "fr_none", "resp_remove"}

\* C15: once the lock is poisoned it stays poisoned, no thread is or gets
\* inside a locked section, the registry is neither read (no lookup result is
\* taken, no outcome returned) nor modified, and a thread that reaches the
\* lock acquisition of on_request, on_response or from_request panics there.
C15_PoisonedLockIsFatal ==
    [][lock = Poisoned =>
          /\ lock' = Poisoned
          /\ REQUEST_IDS' = REQUEST_IDS
          /\ found' = found
          /\ last' = last
          /\ fresh' = fresh
          /\ \A r \in Reqs :
                /\ pc[r] \notin HoldPcs
                /\ pc'[r] \notin HoldPcs
                /\ pc[r] \in LockPcs => pc'[r] \in {pc[r], "panicked"}]_vars

\* the lock is poisoned, and a request that had inserted its entry and never
\* got an outcome has panicked with the entry still in the registry
C15_Witness ==
    /\ lock = Poisoned
    /\ \E q \in Reqs :
          /\ pc[q] = "panicked"
          /\ fresh[q] # NoId
          /\ last[q] = NoOutcome
          /\ Get(REQUEST_IDS, handle[q]) = Some(fresh[q])

\* a resolution of r and the on_response of another request q run at the same
\* time on the same handle
Racing(r, q) ==
    /\ r # q
    /\ handle[r] = handle[q]
    /\ pc[r] \in FrPcs
    /\ pc[q] \in {"resp_lock", "resp_remove"}

\* the identifiers the on_request hooks have stored under handle h
StoredBy(h) == {fresh[p] : p \in {x \in Reqs : handle[x] = h /\ fresh[x] # NoId}}

C17_NoDeadlock ==
    /\ [](\A r \in Reqs : lock = r <=> pc[r] \in HoldPcs)
    /\ [](lock \in Reqs \cup {NoHolder})
    /\ \A r \in Reqs : []<>(pc[r] \notin LockPcs \cup HoldPcs)

\* r has completed its on_request and a resolution, and its on_response waits
\* for the lock that q holds inside from_request
C17_Witness ==
    \E r, q \in Reqs :
        /\ r # q
        /\ pc[r] = "resp_lock"
        /\ last[r] = Success(fresh[r])
        /\ lock = q
        /\ pc[q] = "fr_some"

====
